---- MODULE Spec2Model ----
(***************************************************************************)
(* Model of vector_project/src/vector.rs: a growable array of i32 kept in  *)
(* a raw buffer (data), with a logical length (size) and an allocated      *)
(* slot count (capacity).  Every public method of Vector is an operator on *)
(* a record [data, size, capacity, ub, heap, fault] and an action applying *)
(* it.                                                                     *)
(***************************************************************************)
EXTENDS Integers, Sequences, FiniteSets, TLC

(* ------------------------------ bounds --------------------------------- *)

\* Hints given to new() are 0..MaxHint (17 rounds up to 32, the first
\* capacity at which the shrink tests of pop and delete can fire).
MaxHint == 17

\* Arbitrary items and every operation are explored while size is at most
\* MaxSize; above it only push(Filler) and pop run, up to size MaxFill, so
\* that the growth from 16 to 32 slots on the 17th push is reached.
MaxSize == 4

MaxFill == 17

\* delete doubles the capacity on its small-size branch, without end; calls
\* that would take capacity above MaxCap are not explored.
MaxCap == 128

\* The i32 items stored.
Values == {1, 2}

Filler == CHOOSE x \in Values : \A y \in Values : x <= y

Hints == 0..MaxHint

(* ------------------------- the buffer and its slots -------------------- *)

\* The content of a slot that alloc() returned and nothing wrote yet.
Uninit == -1

\* No item / no index in a call record.
Nil == -2

\* alloc(Layout::array::<i32>(n)): n slots, none written.
alloc(n) == [i \in 0..(n - 1) |-> Uninit]

\* *data.add(i) as a value: reading outside the allocation or a slot never
\* written is undefined behaviour, recorded by readUB.
read(v, i) == IF i \in DOMAIN v.data THEN v.data[i] ELSE Uninit

readUB(v, i) == (i \notin DOMAIN v.data) \/ (v.data[i] = Uninit)

\* *data.add(i) = x: a write outside the allocation is undefined behaviour.
write(v, i, x) ==
  IF i \in DOMAIN v.data
    THEN [v EXCEPT !.data[i] = x]
    ELSE [v EXCEPT !.ub = TRUE]

\* *data.add(dst) = *data.add(src)
move(v, dst, src) ==
  LET w == write(v, dst, read(v, src))
  IN  [w EXCEPT !.ub = w.ub \/ readUB(v, src)]

(* ------------------------------- the heap ------------------------------ *)

\* A buffer obtained from alloc and not yet released: the element count of
\* its layout and the pointer of the program that refers to it ("data" for
\* self.data, "new_data" for the local of resize, "none" once nothing does).
Buffer(n, ref) == [n |-> n, ref |-> ref]

\* The buffer ref points to is allocated and not released.
Live(v, ref) == \E b \in v.heap : b.ref = ref

\* new_data = alloc(Layout::array::<i32>(n)) as seen by the heap.
allocate(v, n, ref) == [v EXCEPT !.heap = v.heap \cup {Buffer(n, ref)}]

\* dealloc(ptr, Layout::array::<i32>(n)): releasing a buffer that is not
\* live, or with another element count than it was allocated with, is a
\* fault.
dealloc(v, ref, n) ==
  [v EXCEPT !.heap  = {b \in v.heap : b.ref # ref},
            !.fault = \/ v.fault
                      \/ ~Live(v, ref)
                      \/ \E b \in v.heap : b.ref = ref /\ b.n # n]

\* self.data = new_data: the buffer data pointed to, if still live, is no
\* longer referred to.
retarget(v) ==
  [v EXCEPT !.heap = {Buffer(b.n, CASE b.ref = "new_data" -> "data"
                                    [] b.ref = "data"     -> "none"
                                    [] OTHER              -> b.ref) :
                       b \in v.heap}]

(* ------------------------------ Vector::new ---------------------------- *)

RECURSIVE bit_length(_)
bit_length(p) == IF p = 0 THEN 0 ELSE 1 + bit_length(p \div 2)

\* usize::next_power_of_two: 1 for n <= 1, otherwise one more than the
\* all-ones mask as wide as n - 1.
next_power_of_two(n) == IF n <= 1 THEN 1 ELSE 2 ^ bit_length(n - 1)

DefaultCapacity == 16

\* Vector::new without the rounding of the hint.
new_unrounded(initial_capacity) ==
  LET c == IF initial_capacity > 0 THEN initial_capacity ELSE DefaultCapacity
  IN  [data |-> alloc(c), size |-> 0, capacity |-> c, ub |-> FALSE,
       heap |-> {Buffer(c, "data")}, fault |-> FALSE]

new(initial_capacity) ==
  LET c == IF initial_capacity > 0
             THEN next_power_of_two(initial_capacity)
             ELSE DefaultCapacity
  IN  [data |-> alloc(c), size |-> 0, capacity |-> c, ub |-> FALSE,
       heap |-> {Buffer(c, "data")}, fault |-> FALSE]

is_empty(v) == v.size = 0

(* ----------------------------- Vector::resize -------------------------- *)

\* resize whose copy loop stops one slot short.
resize_short_copy(v, new_capacity) ==
  LET a == allocate(v, new_capacity, "new_data")
      d == dealloc(a, "data", a.capacity)
  IN  [retarget(d) EXCEPT
         !.data = [i \in 0..(new_capacity - 1) |->
                     IF i < v.size - 1 THEN read(v, i) ELSE Uninit],
         !.capacity = new_capacity]

\* resize that never releases the buffer it replaces.
resize_without_release(v, new_capacity) ==
  LET a == allocate(v, new_capacity, "new_data")
  IN  [retarget(a) EXCEPT
         !.data = [i \in 0..(new_capacity - 1) |->
                     IF i < v.size THEN read(v, i) ELSE Uninit],
         !.capacity = new_capacity]

\* A fresh buffer of new_capacity slots is allocated and receives slots
\* 0..size-1 of the old one; then the old one is released with the layout of
\* the current capacity, and data, capacity are replaced.
resize(v, new_capacity) ==
  LET a == allocate(v, new_capacity, "new_data")
      c == [a EXCEPT
              !.ub    = a.ub \/ (\E i \in 0..(v.size - 1) :
                                   readUB(v, i) \/ i >= new_capacity),
              !.fault = a.fault \/ (v.size > 0 /\ ~Live(a, "data"))]
      d == dealloc(c, "data", c.capacity)
  IN  [retarget(d) EXCEPT
         !.data = [i \in 0..(new_capacity - 1) |->
                     IF i < v.size THEN read(v, i) ELSE Uninit],
         !.capacity = new_capacity]

(* ------------------------------ Vector::at ----------------------------- *)

\* The bounds test that lets index == size through.
out_of_bounds_inclusive(v, index) == index > v.size

\* The panic test shared by at, insert and delete.
out_of_bounds(v, index) == index >= v.size

at(v, index) == read(v, index)

(* ----------------------------- Vector::push ---------------------------- *)

\* push that grows one call too late.
push_late_growth(v, item) ==
  LET g == IF v.size > v.capacity THEN resize(v, v.capacity * 2) ELSE v
      w == write(g, g.size, item)
  IN  [w EXCEPT !.size = g.size + 1]

push(v, item) ==
  LET g == IF v.size = v.capacity THEN resize(v, v.capacity * 2) ELSE v
      w == write(g, g.size, item)
  IN  [w EXCEPT !.size = g.size + 1]

(* ---------------------------- Vector::insert --------------------------- *)

\* The shift of insert run from index upwards.
RECURSIVE shift_up(_, _, _)
shift_up(v, j, top) ==
  IF j > top THEN v ELSE shift_up(move(v, j + 1, j), j + 1, top)

shift_right_ascending(v, i, index) == shift_up(v, index, i)

\* for i in (index..size).rev() { data[i + 1] = data[i] }, entered at
\* i = size - 1 and run downwards.
RECURSIVE shift_right(_, _, _)
shift_right(v, i, index) ==
  IF i < index THEN v ELSE shift_right(move(v, i + 1, i), i - 1, index)

\* insert that grows as soon as the item it adds fills the buffer.
insert_early_growth(v, index, item) ==
  LET g == IF v.size + 1 >= v.capacity THEN resize(v, v.capacity * 2) ELSE v
      s == shift_right(g, g.size - 1, index)
      w == write(s, index, item)
  IN  [w EXCEPT !.size = g.size + 1]

\* insert that never grows the buffer.
insert_no_growth(v, index, item) ==
  LET s == shift_right(v, v.size - 1, index)
      w == write(s, index, item)
  IN  [w EXCEPT !.size = v.size + 1]

\* The body of insert after its bounds check.
insert(v, index, item) ==
  LET g == IF v.size = v.capacity THEN resize(v, v.capacity * 2) ELSE v
      s == shift_right(g, g.size - 1, index)
      w == write(s, index, item)
  IN  [w EXCEPT !.size = g.size + 1]

(* ----------------------------- Vector::pop ----------------------------- *)

\* The value of pop read after size was decremented twice over.
pop_value_past_end(v) == read(v, v.size - 2)

\* The value pop returns on a non-empty vector.
pop_value(v) == read(v, v.size - 1)

\* pop without the floor of 16 slots on its shrink test.
pop_no_floor(v) ==
  IF is_empty(v) THEN v
  ELSE LET d == [v EXCEPT !.size = v.size - 1]
       IN  IF d.size <= d.capacity \div 4
             THEN resize(d, d.capacity \div 2)
             ELSE d

\* pop that applies its shrink test before the empty test.
pop_shrinks_when_empty(v) ==
  IF is_empty(v)
    THEN IF v.capacity > 16 THEN resize(v, v.capacity \div 2) ELSE v
    ELSE LET d == [v EXCEPT !.size = v.size - 1]
         IN  IF d.size <= d.capacity \div 4 /\ d.capacity > 16
               THEN resize(d, d.capacity \div 2)
               ELSE d

\* pop that shrinks only below a quarter, not at a quarter.
pop_strict(v) ==
  IF is_empty(v) THEN v
  ELSE LET d == [v EXCEPT !.size = v.size - 1]
       IN  IF d.size < d.capacity \div 4 /\ d.capacity > 16
             THEN resize(d, d.capacity \div 2)
             ELSE d

\* The vector pop leaves behind (v itself when it is empty).
pop(v) ==
  IF is_empty(v) THEN v
  ELSE LET d == [v EXCEPT !.size = v.size - 1,
                          !.ub = v.ub \/ readUB(v, v.size - 1)]
       IN  IF d.size <= d.capacity \div 4 /\ d.capacity > 16
             THEN resize(d, d.capacity \div 2)
             ELSE d

(* ---------------------------- Vector::delete --------------------------- *)

\* The shift of delete stopping one slot early.
RECURSIVE shift_left_short(_, _)
shift_left_short(v, i) ==
  IF i >= v.size - 2 THEN v ELSE shift_left_short(move(v, i, i + 1), i + 1)

\* for i in index..size - 1 { data[i] = data[i + 1] }, run upwards.
RECURSIVE shift_left(_, _)
shift_left(v, i) ==
  IF i >= v.size - 1 THEN v ELSE shift_left(move(v, i, i + 1), i + 1)

\* delete that halves on its small-size branch, as pop does.
delete_halving(v, index) ==
  LET s == shift_left(v, index)
      d == [s EXCEPT !.size = s.size - 1]
  IN  IF d.size <= d.capacity \div 4 /\ d.capacity > 16
        THEN resize(d, d.capacity \div 2)
        ELSE d

\* The body of delete after its bounds check.
delete(v, index) ==
  LET s == shift_left(v, index)
      d == [s EXCEPT !.size = s.size - 1]
  IN  IF d.size <= d.capacity \div 4 /\ d.capacity > 16
        THEN resize(d, d.capacity * 2)
        ELSE d

(* ---------------------------- Vector::remove --------------------------- *)

\* The scan of remove that advances after a deletion too.
RECURSIVE remove_loop_skipping(_, _, _)
remove_loop_skipping(v, i, item) ==
  IF i < v.size
    THEN IF read(v, i) = item
           THEN remove_loop_skipping(delete(v, i), i + 1, item)
           ELSE remove_loop_skipping(v, i + 1, item)
    ELSE v

\* while i < size { if data[i] == item { delete(i) } else { i += 1 } }
RECURSIVE remove_loop(_, _, _)
remove_loop(v, i, item) ==
  IF i < v.size
    THEN IF read(v, i) = item
           THEN remove_loop(delete([v EXCEPT !.ub = v.ub \/ readUB(v, i)], i),
                            i, item)
           ELSE remove_loop([v EXCEPT !.ub = v.ub \/ readUB(v, i)],
                            i + 1, item)
    ELSE v

remove(v, item) == remove_loop(v, 0, item)

\* One iteration of the loop of remove that forgets i += 1.
remove_iteration_no_advance(v, i, item) ==
  IF read(v, i) = item
    THEN [v |-> delete(v, i), i |-> i]
    ELSE [v |-> v, i |-> i]

\* One iteration of the while loop of remove, entered with i < size: the
\* Vector and the scan index it leaves.
remove_iteration(v, i, item) ==
  LET r == [v EXCEPT !.ub = v.ub \/ readUB(v, i)]
  IN  IF read(v, i) = item
        THEN [v |-> delete(r, i), i |-> i]
        ELSE [v |-> r, i |-> i + 1]

(* ----------------------------- Vector::find ---------------------------- *)

\* The scan of find run over every allocated slot.
RECURSIVE find_loop_stale(_, _, _)
find_loop_stale(v, i, item) ==
  IF i < v.capacity
    THEN IF read(v, i) = item THEN i ELSE find_loop_stale(v, i + 1, item)
    ELSE -1

\* for i in 0..size { if data[i] == item { return i } } -1
RECURSIVE find_loop(_, _, _)
find_loop(v, i, item) ==
  IF i < v.size
    THEN IF read(v, i) = item THEN i ELSE find_loop(v, i + 1, item)
    ELSE -1

find(v, item) == find_loop(v, 0, item)

\* The slots find reads: those below size up to the first that holds item.
find_reads(v, item) ==
  {i \in 0..(v.size - 1) : \A j \in 0..(i - 1) : read(v, j) # item}

(* --------------------------- impl Drop for Vector ---------------------- *)

drop(v) == dealloc(v, "data", v.capacity)

(* ------------------------------- the state ----------------------------- *)

VARIABLES
  data,      \* the buffer: slot number -> item or Uninit
  size,      \* Vector.size
  capacity,  \* Vector.capacity
  ub,        \* an access outside the buffer or a read of an unwritten slot happened
  heap,      \* the buffers allocated and not released
  fault,     \* a buffer was released twice, released with a wrong layout, or
             \* used after its release
  alive,     \* the Vector has not been dropped
  scan,      \* the while loop of a remove call in progress (SpecRemove)
  last,      \* the call that produced this state, its arguments and its result
  hist       \* the calls since new, while they are pushes followed by pops
             \* of elements

vars == <<data, size, capacity, ub, heap, fault, alive, scan, last, hist>>

\* The Vector as the methods see it.
self ==
  [data |-> data, size |-> size, capacity |-> capacity, ub |-> ub,
   heap |-> heap, fault |-> fault]

\* The fields of the Vector after a method left it as w.
Becomes(w) ==
  /\ data' = w.data
  /\ size' = w.size
  /\ capacity' = w.capacity
  /\ ub' = w.ub
  /\ heap' = w.heap
  /\ fault' = w.fault

Call(op, index, item, panicked, ret) ==
  [op |-> op, index |-> index, item |-> item, panicked |-> panicked, ret |-> ret]

\* hist once a call other than push-then-pop was made.
Mixed == [mode |-> "mixed", hint |-> Nil, pushed |-> <<>>, pops |-> 0]

\* No remove call is in progress.
Idle == [active |-> FALSE, i |-> 0, item |-> Nil, iters |-> 0, size0 |-> 0]

\* A call is explored only from a state without undefined behaviour and
\* only when it keeps capacity within MaxCap.
Explored(w) == ~ub /\ w.capacity <= MaxCap

\* A method can be called: the Vector is not dropped, and no other call is
\* running.
Callable == alive /\ ~scan.active

Init ==
  \E h \in Hints :
    /\ data = new(h).data
    /\ size = new(h).size
    /\ capacity = new(h).capacity
    /\ ub = new(h).ub
    /\ heap = new(h).heap
    /\ fault = new(h).fault
    /\ alive = TRUE
    /\ scan = Idle
    /\ last = Call("new", h, Nil, FALSE, Nil)
    /\ hist = [mode |-> "push", hint |-> h, pushed |-> <<>>, pops |-> 0]

(* ------------------------------ the calls ------------------------------ *)

\* at(index): panics when index >= size, else returns the slot.
At(index) ==
  /\ Callable
  /\ ~ub /\ size <= MaxSize
  /\ UNCHANGED <<data, size, capacity, heap, fault, alive, scan, hist>>
  /\ IF out_of_bounds(self, index)
       THEN /\ last' = Call("at", index, Nil, TRUE, Nil)
            /\ ub' = ub
       ELSE /\ last' = Call("at", index, Nil, FALSE, at(self, index))
            /\ ub' = (ub \/ readUB(self, index))

\* push(item)
Push(item) ==
  /\ Callable
  /\ Explored(push(self, item))
  /\ size < MaxSize \/ (item = Filler /\ size < MaxFill)
  /\ Becomes(push(self, item))
  /\ last' = Call("push", Nil, item, FALSE, Nil)
  /\ hist' = IF hist.mode = "push"
               THEN [hist EXCEPT !.pushed = Append(hist.pushed, item)]
               ELSE Mixed
  /\ UNCHANGED <<alive, scan>>

\* What insert(index, item) and prepend(item) do, recorded as call op.
InsertCall(op, index, item) ==
  /\ Callable
  /\ ~ub /\ size <= MaxSize
  /\ hist' = Mixed
  /\ UNCHANGED <<alive, scan>>
  /\ IF out_of_bounds(self, index)
       THEN /\ UNCHANGED <<data, size, capacity, ub, heap, fault>>
            /\ last' = Call(op, index, item, TRUE, Nil)
       ELSE /\ Explored(insert(self, index, item))
            /\ Becomes(insert(self, index, item))
            /\ last' = Call(op, index, item, FALSE, Nil)

\* insert(index, item)
Insert(index, item) == InsertCall("insert", index, item)

\* prepend(item): insert(0, item)
Prepend(item) == InsertCall("prepend", 0, item)

\* pop(): None on an empty vector, else Some(last element).
Pop ==
  /\ Callable
  /\ Explored(pop(self))
  /\ Becomes(pop(self))
  /\ last' = IF is_empty(self)
               THEN Call("pop", Nil, Nil, FALSE, Nil)
               ELSE Call("pop", Nil, Nil, FALSE, pop_value(self))
  /\ hist' = IF hist.mode \in {"push", "pop"} /\ ~is_empty(self)
               THEN [hist EXCEPT !.mode = "pop", !.pops = hist.pops + 1]
               ELSE Mixed
  /\ UNCHANGED <<alive, scan>>

\* delete(index)
Delete(index) ==
  /\ Callable
  /\ ~ub /\ size <= MaxSize
  /\ hist' = Mixed
  /\ UNCHANGED <<alive, scan>>
  /\ IF out_of_bounds(self, index)
       THEN /\ UNCHANGED <<data, size, capacity, ub, heap, fault>>
            /\ last' = Call("delete", index, Nil, TRUE, Nil)
       ELSE /\ Explored(delete(self, index))
            /\ Becomes(delete(self, index))
            /\ last' = Call("delete", index, Nil, FALSE, Nil)

\* remove(item)
Remove(item) ==
  /\ Callable
  /\ size <= MaxSize
  /\ Explored(remove(self, item))
  /\ Becomes(remove(self, item))
  /\ last' = Call("remove", Nil, item, FALSE, Nil)
  /\ hist' = Mixed
  /\ UNCHANGED <<alive, scan>>

\* find(item)
Find(item) ==
  /\ Callable
  /\ ~ub /\ size <= MaxSize
  /\ UNCHANGED <<data, size, capacity, heap, fault, alive, scan, hist>>
  /\ ub' = (ub \/ \E i \in find_reads(self, item) : readUB(self, i))
  /\ last' = Call("find", Nil, item, FALSE, find(self, item))

\* The owning scope ends, normally or while a panic unwinds (panicked is
\* then kept in the call record): drop runs once and nothing can be called
\* afterwards.
Drop ==
  /\ Callable
  /\ Becomes(drop(self))
  /\ alive' = FALSE
  /\ last' = Call("drop", Nil, Nil, last.panicked, Nil)
  /\ UNCHANGED <<scan, hist>>

\* The indices tried: every valid one, size itself and one beyond.
Indices == 0..(size + 1)

Next ==
  \/ \E index \in Indices : At(index)
  \/ \E item \in Values : Push(item)
  \/ \E index \in Indices, item \in Values : Insert(index, item)
  \/ \E item \in Values : Prepend(item)
  \/ Pop
  \/ \E index \in Indices : Delete(index)
  \/ \E item \in Values : Remove(item)
  \/ \E item \in Values : Find(item)
  \/ Drop

Spec == Init /\ [][Next]_vars

(* ------------------- remove, one loop iteration at a time -------------- *)

\* remove(item) is entered: let mut i = 0.
RemoveBegin(item) ==
  /\ Callable
  /\ size <= MaxSize
  /\ Explored(remove(self, item))
  /\ scan' = [active |-> TRUE, i |-> 0, item |-> item, iters |-> 0,
              size0 |-> size]
  /\ hist' = Mixed
  /\ UNCHANGED <<data, size, capacity, ub, heap, fault, alive, last>>

\* while i < self.size { ... }: one pass through the body.
RemoveIteration ==
  /\ alive /\ scan.active
  /\ scan.i < size
  /\ \E r \in {remove_iteration(self, scan.i, scan.item)} :
       /\ Becomes(r.v)
       /\ scan' = [scan EXCEPT !.i = r.i, !.iters = scan.iters + 1]
  /\ UNCHANGED <<alive, last, hist>>

\* The loop test fails and remove returns.
RemoveReturn ==
  /\ alive /\ scan.active
  /\ ~(scan.i < size)
  /\ scan' = Idle
  /\ last' = Call("remove", Nil, scan.item, FALSE, Nil)
  /\ UNCHANGED <<data, size, capacity, ub, heap, fault, alive, hist>>

\* Vectors are built by push and pop; remove runs step by step.
NextRemove ==
  \/ \E item \in Values : Push(item)
  \/ Pop
  \/ \E item \in Values : RemoveBegin(item)
  \/ RemoveIteration
  \/ RemoveReturn

SpecRemove == Init /\ [][NextRemove]_vars

(* ------------------------- notions the claims use ---------------------- *)

\* The logical elements, positions 0..size-1, as a sequence.
Elements == [i \in 1..size |-> read(self, i - 1)]

RECURSIVE IsPowerOfTwo(_)
IsPowerOfTwo(n) ==
  n >= 1 /\ (n = 1 \/ (n % 2 = 0 /\ IsPowerOfTwo(n \div 2)))

SmallestPowerOfTwoAtLeast(h) ==
  CHOOSE p \in 1..(2 * h) :
    /\ IsPowerOfTwo(p) /\ p >= h
    /\ \A q \in 1..(2 * h) : (IsPowerOfTwo(q) /\ q >= h) => p <= q

\* The step just taken was a call of one of ops that did not panic.
Returned(ops) == last'.op \in ops /\ ~last'.panicked

(* -------------------------------- C1 ----------------------------------- *)

\* C1: in every state reachable from new(h), capacity is a power of two and
\* capacity >= 16.
C1_CapacityPowerOfTwoAtLeast16 ==
  IsPowerOfTwo(capacity) /\ capacity >= 16

(* -------------------------------- C2 ----------------------------------- *)

\* C2: size <= capacity in every reachable state.
C2_SizeWithinCapacity == size <= capacity

\* A buffer that grew to 4 slots and is full again after a push or insert.
C2_Witness ==
  /\ last.op \in {"push", "insert"} /\ ~last.panicked
  /\ size = capacity /\ capacity = 4

(* -------------------------------- C3 ----------------------------------- *)

\* C3: after n push calls on a fresh vector, size is n and at(i) returns the
\* i-th pushed value for every i < n, across every growth on the way.
C3_PushesKept ==
  hist.mode = "push" =>
    /\ size = Len(hist.pushed)
    /\ \A i \in 0..(Len(hist.pushed) - 1) :
         ~out_of_bounds(self, i) /\ at(self, i) = hist.pushed[i + 1]

\* Five pushes on new(1): the buffer grew from 1 to 2, 4 and 8 slots.
C3_Witness ==
  /\ hist.mode = "push" /\ hist.hint = 1
  /\ hist.pushed = <<2, 1, 2, 1, Filler>>
  /\ capacity = 8

(* -------------------------------- C4 ----------------------------------- *)

GrowthStep ==
  Returned({"push", "insert", "prepend"}) =>
    capacity' = IF size = capacity THEN 2 * capacity ELSE capacity

\* Pushes alone on new(0): 16 slots up to the 16th push, 32 from the 17th.
GrowthExample ==
  (hist.mode = "push" /\ hist.hint = 0 /\ Len(hist.pushed) <= 32) =>
    capacity = IF Len(hist.pushed) <= 16 THEN 16 ELSE 32

\* C5: a successful push, insert or prepend sets capacity to twice its
\* previous value exactly when size == capacity held at the start of the
\* call, and never otherwise; from new(0) capacity first becomes 32 on the
\* 17th push.
C5_GrowthExactlyWhenFull == [][GrowthStep]_vars /\ []GrowthExample

\* The 17th push on new(0) has just grown the buffer to 32 slots.
C5_Witness ==
  /\ last.op = "push" /\ hist.mode = "push" /\ hist.hint = 0
  /\ Len(hist.pushed) = 17 /\ capacity = 32

(* -------------------------------- C6 ----------------------------------- *)

\* pop on a non-empty vector.
PopStep ==
  (last'.op = "pop" /\ size > 0) =>
    /\ last'.ret = read(self, size - 1)
    /\ size' = size - 1
    /\ \A i \in 0..(size - 2) : data'[i] = data[i]
    /\ capacity' = IF size - 1 <= capacity \div 4 /\ capacity > 16
                     THEN capacity \div 2
                     ELSE capacity

\* 17 pushes on new(0), then 13 pops.
PopExample ==
  (/\ hist.mode = "pop" /\ hist.hint = 0
   /\ Len(hist.pushed) = 17 /\ hist.pops = 13) =>
    (size = 4 /\ capacity = 16)

\* C6: pop() on a non-empty array returns the last logical element,
\* decrements size, leaves elements [0, size-1) unchanged and halves capacity
\* exactly when the new size <= capacity/4 and capacity > 16; from 17 pushed
\* elements on new(0), 13 pops end with size 4 and capacity 16.
C6_Pop == [][PopStep]_vars /\ []PopExample

C6_Witness ==
  /\ last.op = "pop" /\ hist.mode = "pop" /\ hist.hint = 0
  /\ Len(hist.pushed) = 17 /\ hist.pops = 13 /\ size = 4

(* -------------------------------- C7 ----------------------------------- *)

\* A pop or delete that leaves size <= capacity/4 while capacity > 16 ends
\* with a smaller capacity (half, for pop).
ShrinkStep ==
  (/\ Returned({"pop", "delete"})
   /\ size > 0 /\ size - 1 <= capacity \div 4 /\ capacity > 16) =>
    /\ capacity' < capacity
    /\ last'.op = "pop" => capacity' = capacity \div 2

\* No pop, delete or remove lowers capacity to a value below 16.
FloorStep ==
  (Returned({"pop", "delete", "remove"}) /\ capacity' < capacity) =>
    capacity' >= 16

\* C7: whenever a pop or delete call leaves size <= capacity/4 while
\* capacity > 16, the call ends with a smaller capacity (half for pop), and
\* no pop, delete or remove lowers capacity below 16.
C7_ShrinkWhenSparse == [][ShrinkStep /\ FloorStep]_vars

(* -------------------------------- C8 ----------------------------------- *)

DeleteStep ==
  Returned({"delete"}) =>
    capacity' = IF size - 1 <= capacity \div 4 /\ capacity > 16
                  THEN 2 * capacity
                  ELSE capacity

FailStep ==
  last'.op \in {"at", "insert", "prepend", "delete"} =>
    /\ last'.panicked <=> last'.index >= size
    /\ last'.panicked => UNCHANGED <<data, size, capacity>>

\* C9: at, insert and delete fail exactly when index >= size, and a failed
\* call leaves size, capacity and the elements as they were.
C9_OutOfBounds == [][FailStep]_vars

\* insert at index == size of a non-empty vector panicked.
C9_Witness ==
  last.op = "insert" /\ last.panicked /\ last.index = size /\ size > 0

(* -------------------------------- C10 ---------------------------------- *)

Others(seq, x) == SelectSeq(seq, LAMBDA e : e # x)

RemoveStep ==
  last'.op = "remove" => Elements' = Others(Elements, last'.item)

\* C10: remove(x) ends with no occurrence of x, with the other elements in
\* their original relative order, and with size reduced by the number of
\* occurrences of x.
C10_Remove == [][RemoveStep]_vars

\* remove(1) deleted two elements of a vector built on new(17): each delete
\* doubled the 32 slots.
C10_Witness ==
  /\ last.op = "remove" /\ last.item = 1
  /\ Elements = <<2, 2>> /\ capacity = 128

(* -------------------------------- C11 ---------------------------------- *)

\* The positions below size that hold x.
Matches(x) == {i \in 0..(size - 1) : read(self, i) = x}

FindStep ==
  last'.op = "find" =>
    /\ last'.ret = IF Matches(last'.item) = {}
                     THEN -1
                     ELSE CHOOSE i \in Matches(last'.item) :
                            \A j \in Matches(last'.item) : i <= j
    /\ UNCHANGED <<data, size, capacity>>

\* C11: find(x) returns the smallest index i < size whose element equals x,
\* -1 when no logical element equals x (a stale slot at a position >= size
\* never matches), and changes neither size, capacity nor elements.
C11_Find == [][FindStep]_vars

\* find(x) answered -1 although a stale slot beyond size holds x.
C11_Witness ==
  /\ last.op = "find" /\ last.ret = -1
  /\ \E i \in size..(capacity - 1) : read(self, i) = last.item

(* -------------------------------- C12 ---------------------------------- *)

\* seq with x put in front of its element number index (counted from 0).
Inserted(seq, index, x) ==
  SubSeq(seq, 1, index) \o <<x>> \o SubSeq(seq, index + 1, Len(seq))

InsertStep ==
  Returned({"insert", "prepend"}) =>
    /\ last'.index < size
    /\ Elements' = Inserted(Elements, last'.index, last'.item)

PrependStep ==
  Returned({"prepend"}) =>
    /\ Elements' = <<last'.item>> \o Elements
    /\ capacity' = insert(self, 0, last'.item).capacity

\* C12: insert(index, item) with index < size increases size by one, puts
\* item at position index, leaves [0, index) unchanged and moves every
\* element of [index, size) one position up, also when the call grows the
\* buffer first; prepend(item) on a non-empty array does what
\* insert(0, item) does.
C12_Insert == [][InsertStep /\ PrependStep]_vars

\* insert(0, 2) on the two elements <<1, 2>>: on a buffer of 2 slots this is
\* the insert that grows it to 4.
C12_Witness ==
  /\ last.op = "insert" /\ ~last.panicked /\ last.index = 0
  /\ Elements = <<2, 1, 2>> /\ capacity = 4

(* -------------------------------- C13 ---------------------------------- *)

\* seq without its element number index (counted from 0).
Deleted(seq, index) ==
  SubSeq(seq, 1, index) \o SubSeq(seq, index + 2, Len(seq))

DeleteElementsStep ==
  Returned({"delete"}) => Elements' = Deleted(Elements, last'.index)

\* C13: delete(index) with index < size decreases size by one, leaves
\* [0, index) unchanged and moves every element of (index, size) one
\* position down, also when the call changes capacity.
C13_Delete == [][DeleteElementsStep]_vars

\* delete(0) left <<2, 1>> and reallocated the buffer of new(17).
C13_Witness ==
  /\ last.op = "delete" /\ ~last.panicked /\ last.index = 0
  /\ Elements = <<2, 1>> /\ capacity = 64

(* -------------------------------- C14 ---------------------------------- *)

\* A push adds one element; a pop made right after a push returns the item
\* pushed and takes the one element away again.
PushPopStep ==
  /\ last'.op = "push" => size' = size + 1
  /\ (last.op = "push" /\ last'.op = "pop") =>
       (last'.ret = last.item /\ size' = size - 1)

\* The same on the methods themselves, for every item.
PushPopRoundTrip ==
  \A x \in Values :
    /\ pop_value(push(self, x)) = x
    /\ pop(push(self, x)).size = size

\* C14: in every reachable state and for every value v, push(v) followed
\* immediately by pop() returns v and restores the size held before the
\* push.
C14_PushPop == [][PushPopStep]_vars /\ []PushPopRoundTrip

\* On new(1): push(1), then push(2), which grows the buffer, then pop().
C14_Witness ==
  /\ last.op = "pop" /\ last.ret = 2
  /\ hist.mode = "pop" /\ hist.hint = 1 /\ hist.pops = 1
  /\ hist.pushed = <<1, 2>> /\ size = 1

(* -------------------------------- C15 ---------------------------------- *)

EmptyPopStep ==
  (last'.op = "pop" /\ size = 0) =>
    /\ last'.ret = Nil /\ ~last'.panicked
    /\ UNCHANGED <<data, size, capacity, heap>>

\* C15: pop() on an empty array returns None without failing and leaves
\* size, capacity and the buffer unchanged, whatever the capacity.
C15_PopEmpty == [][EmptyPopStep]_vars

\* pop() returned None on an empty vector of 64 slots.
C15_Witness ==
  last.op = "pop" /\ last.ret = Nil /\ size = 0 /\ capacity = 64

(* -------------------------------- C16 ---------------------------------- *)

\* C16: from construction to destruction the Vector owns exactly one buffer;
\* every buffer allocated by new or resize is released exactly once, by the
\* resize that replaces it or by drop (also when drop runs after an
\* out-of-bounds panic); no released buffer is used afterwards; and each
\* release uses the element count the buffer was allocated with.
C16_BufferLifecycle ==
  /\ ~fault
  /\ alive => heap = {Buffer(capacity, "data")}
  /\ ~alive => heap = {}

\* The Vector was dropped while an out-of-bounds panic unwound, after its
\* buffer had been replaced by resize (64 slots are not reachable by new).
C16_Witness ==
  ~alive /\ last.op = "drop" /\ last.panicked /\ capacity = 64 /\ heap = {}

(* -------------------------------- C17 ---------------------------------- *)

\* C17: every read or write of a slot, in every call, targets a position
\* below the capacity of the buffer addressed (insert writes position size
\* only after growth made size < capacity; resize is only called with
\* new_capacity >= size), and every read targets a slot written before, so
\* no unspecified value is returned or copied into positions [0, size).
C17_SlotAccessesSafe ==
  /\ ~ub
  /\ DOMAIN data = 0..(capacity - 1)
  /\ \A i \in 0..(size - 1) : i \in DOMAIN data /\ data[i] # Uninit

\* insert(0, x) on four elements: on a full buffer of 4 slots it grows the
\* buffer to 8 and its shift then writes position 4, the old capacity.
C17_Witness ==
  /\ last.op = "insert" /\ ~last.panicked /\ last.index = 0
  /\ size = 5 /\ capacity = 8 /\ data[4] # Uninit /\ data[5] = Uninit

(* -------------------------------- C18 ---------------------------------- *)

\* Vector::new(0)
InitZero == Init /\ last.index = 0

\* Every call but delete and remove.
NextNoDelete ==
  \/ \E index \in Indices : At(index)
  \/ \E item \in Values : Push(item)
  \/ \E index \in Indices, item \in Values : Insert(index, item)
  \/ \E item \in Values : Prepend(item)
  \/ Pop
  \/ \E item \in Values : Find(item)

SpecNoDelete == InitZero /\ [][NextNoDelete]_vars

Max(a, b) == IF a >= b THEN a ELSE b

\* C18: in every state reachable from new(0) by push, insert, prepend, pop,
\* at and find alone, capacity is 16 or size > capacity/4, so capacity never
\* exceeds max(16, 4 * size).
C18_Utilisation ==
  /\ capacity = 16 \/ size > capacity \div 4
  /\ capacity <= Max(16, 4 * size)

\* Pops brought a buffer of 32 slots down to 9 elements, one above the
\* quarter at which the next pop halves it.
C18_Witness == last.op = "pop" /\ capacity = 32 /\ size = 9

(* -------------------------------- C19 ---------------------------------- *)

\* An iteration either deletes one element and holds the scan index, or
\* keeps the elements and advances the index by one.
IterationStep ==
  (scan.active /\ scan'.active) =>
    /\ scan'.iters = scan.iters + 1
    /\ \/ size' = size - 1 /\ scan'.i = scan.i
       \/ size' = size /\ scan'.i = scan.i + 1

\* The elements still to scan shrink by one per iteration, so that at most
\* the initial size iterations are made: after that many the loop test
\* fails.
IterationsBounded ==
  scan.active =>
    /\ scan.iters <= scan.size0
    /\ size - scan.i = scan.size0 - scan.iters
    /\ scan.iters = scan.size0 => ~(scan.i < size)

\* Once the loop test fails, the only step of the call is its return.
ExitStep ==
  (scan.active /\ ~(scan.i < size)) => ~scan'.active

\* C19: remove(x) always terminates: every iteration of its scan either
\* deletes one element (size decreases by one, scan index held) or advances
\* the scan index by one, so the loop ends after at most the initial size
\* iterations, for every content including one made only of x.
C19_RemoveTerminates ==
  /\ [][IterationStep /\ ExitStep]_vars
  /\ []IterationsBounded

\* The scan of a vector of four elements, all of them x, is about to end:
\* four iterations deleted them all.
C19_Witness ==
  /\ scan.active /\ scan.size0 = 4 /\ scan.iters = 4
  /\ size = 0 /\ scan.i = 0

====
